---------------------------- MODULE Spec2Model ----------------------------
(***************************************************************************)
(* A model of bitwizeshift/not_null (include/not_null.hpp).                *)
(*                                                                         *)
(* not_null<T> holds one value of a nullable pointer-like type T in its    *)
(* member m_pointer.  The model keeps a small pool of wrapper objects,     *)
(* the two factories, the constructors and assignments, the observers and  *)
(* the comparison operators, and the error signalling of check_not_null    *)
(* in both build modes (NOT_NULL_DISABLE_EXCEPTIONS defined or not).       *)
(*                                                                         *)
(* A payload value is a record [type, addr]: the pointer-like type it has  *)
(* and the raw address it refers to, address 0 being the null pointer.     *)
(***************************************************************************)
EXTENDS Integers, Sequences, FiniteSets

\* ------------------------------------------------------------------ bounds

\* Number of wrapper objects that can be alive at once.
NumWrappers == 2

\* Addresses are 0 (null) and 1..MaxAddr.
MaxAddr == 2

\* ----------------------------------------------------------- payload types

RAW == "int*"
SHARED == "shared_ptr<int>"
SHARED_VOID == "shared_ptr<void>"
UNIQUE == "unique_ptr<int>"

Types == {RAW, SHARED, SHARED_VOID, UNIQUE}

\* Handles in layers: a class whose operator->() returns another handle.
HANDLE2 == "handle<unique_ptr<int>>"
HANDLE3 == "handle<handle<unique_ptr<int>>>"

LayeredTypes == {HANDLE2, HANDLE3}

Slots == 1..NumWrappers

Addrs == 0..MaxAddr

\* The null pointer constant.
nullptr == 0

Values == [type : Types, addr : Addrs]

LayeredValues == [type : LayeredTypes, addr : Addrs]

\* The content of a slot that holds no object, and of a result that is absent.
Nothing == [type |-> "none", addr |-> nullptr]

LVALUE == "lvalue"
RVALUE == "rvalue"

Categories == {LVALUE, RVALUE}

\* p == nullptr for a payload value.
IsNull(p) == p.addr = nullptr

\* std::is_copy_constructible<T>: a unique_ptr cannot be copied.
IsCopyable(T) == T # UNIQUE

\* std::is_constructible<T, U> for U a const U& (LVALUE) or a U&& (RVALUE).
IsConstructible(T, U, cat) ==
    \/ T = U /\ (cat = RVALUE \/ IsCopyable(T))
    \/ T \in {SHARED, SHARED_VOID, UNIQUE} /\ U = RAW
    \/ T = SHARED_VOID /\ U = SHARED
    \/ T \in {SHARED, SHARED_VOID} /\ U = UNIQUE /\ cat = RVALUE

\* std::is_convertible<U, T>: the construction is also an implicit conversion.
\* Adopting a raw pointer into an owning handle is explicit.
IsConvertible(U, T, cat) ==
    /\ IsConstructible(T, U, cat)
    /\ ~(U = RAW /\ T # RAW)

\* Mutant of IsAssignable: whatever a T can be constructed from can be
\* assigned to it.
IsAssignableIfConstructible(T, U, cat) == IsConstructible(T, U, cat)

\* std::is_assignable<T&, U> for U a const U& (LVALUE) or a U&& (RVALUE).
\* No handle type can be assigned a raw pointer.
IsAssignable(T, U, cat) ==
    /\ IsConstructible(T, U, cat)
    /\ ~(U = RAW /\ T # RAW)

\* The comparison x == y (and x < y, ...) is well-formed for the two types.
IsComparable(T, U) ==
    \/ T = RAW /\ U = RAW
    \/ T \in {SHARED, SHARED_VOID} /\ U \in {SHARED, SHARED_VOID}
    \/ T = UNIQUE /\ U = UNIQUE

\* T(u): a T built from u refers to the address u refers to.
Construct(T, u) == [type |-> T, addr |-> u.addr]

\* The state a value is left in once a T was move-constructed or
\* move-assigned from it: a raw pointer keeps its value, a handle is empty.
MovedFrom(u) == IF u.type = RAW THEN u ELSE [u EXCEPT !.addr = nullptr]

\* What is left of the argument of a forwarding initialisation.
AfterForward(u, cat) == IF cat = RVALUE THEN MovedFrom(u) ELSE u


\* ------------------------------------------------- detail utilities (pure)

\* decltype(p.operator->()) for a handle of type T: the raw pointer type, or
\* the next handle of a layered one.
Pointee(T) ==
    CASE T = HANDLE3 -> HANDLE2
      [] T = HANDLE2 -> UNIQUE
      [] OTHER -> RAW

\* p.operator->() of a handle: what it stores, which refers to the same
\* address.
Arrow(p) == [type |-> Pointee(p.type), addr |-> p.addr]

\* Mutant of not_null_to_address: operator->() is applied once.
not_null_to_address_one_step(p) ==
    IF p.type = RAW THEN p ELSE Arrow(p)

RECURSIVE not_null_to_address(_)
\* detail::not_null_to_address: a raw pointer is returned as it is, anything
\* else is resolved through its operator->().
not_null_to_address(p) ==
    IF p.type = RAW THEN p ELSE not_null_to_address(Arrow(p))

\* Whether resolving p to an address has defined behaviour: a raw pointer is
\* returned as it is, a handle's operator->() requires the handle not to be
\* empty.
HasValidChain(p) == p.type = RAW \/ p.addr # nullptr

\* Mutant of not_null_is_explicit_convertible: convertibility is not asked.
not_null_is_explicit_convertible_unconditional(T, U, cat) ==
    IsConstructible(T, U, cat)

\* detail::not_null_is_explicit_convertible<T, U>.
not_null_is_explicit_convertible(T, U, cat) ==
    IsConstructible(T, U, cat) /\ ~IsConvertible(U, T, cat)

\* detail::not_null_is_implicit_convertible<T, U>.
not_null_is_implicit_convertible(T, U, cat) ==
    IsConstructible(T, U, cat) /\ IsConvertible(U, T, cat)

\* The text both build modes report.
ViolationMessage ==
    "check_not_null invoked with null pointer; not_null's contruct has been violated"

NoException == [type |-> "none", base |-> "none", what |-> ""]

\* class not_null_contract_violation : public std::logic_error.
not_null_contract_violation ==
    [type |-> "not_null_contract_violation",
     base |-> "logic_error",
     what |-> ViolationMessage]

\* Mutant of throw_null_pointer_error: it throws a std::runtime_error, which
\* is no logic_error.
throw_null_pointer_error_runtime(disabled) ==
    IF disabled
    THEN [signal |-> "abort", printed |-> <<ViolationMessage>>,
          thrown |-> NoException]
    ELSE [signal |-> "throw", printed |-> <<>>,
          thrown |-> [type |-> "runtime_error", base |-> "exception",
                      what |-> ViolationMessage]]

\* Mutant of throw_null_pointer_error: with exceptions disabled it aborts
\* and prints nothing.
throw_null_pointer_error_silent(disabled) ==
    IF disabled
    THEN [signal |-> "abort", printed |-> <<>>, thrown |-> NoException]
    ELSE [signal |-> "throw", printed |-> <<>>,
          thrown |-> not_null_contract_violation]

\* detail::throw_null_pointer_error: with exceptions disabled it prints the
\* message to stderr and aborts, otherwise it throws.  It never returns.
throw_null_pointer_error(disabled) ==
    IF disabled
    THEN [signal |-> "abort", printed |-> <<ViolationMessage>>,
          thrown |-> NoException]
    ELSE [signal |-> "throw", printed |-> <<>>,
          thrown |-> not_null_contract_violation]

\* ------------------------------------------------------ class not_null<T>

\* A wrapper object; NoObject stands where no wrapper was produced.
Wrapper(p) == [m_pointer |-> p]

NoObject == Wrapper(Nothing)

\* Mutant of not_null_ctor: the member is initialised from what the
\* forwarding left behind in the argument.
not_null_ctor_after_move(ptr, cat) ==
    [obj |-> Wrapper(Construct(ptr.type, AfterForward(ptr, cat))),
     arg |-> AfterForward(ptr, cat)]

\* not_null<T>::not_null(ctor_tag, P&& ptr): m_pointer is initialised from
\* the forwarded argument; T is the decayed type of the argument.
not_null_ctor(ptr, cat) ==
    [obj |-> Wrapper(Construct(ptr.type, ptr)),
     arg |-> AfterForward(ptr, cat)]

\* detail::not_null_factory::make.
make(p, cat) == not_null_ctor(p, cat)

\* Mutant of as_nullable: it returns what a move would leave behind.
as_nullable_spent(w) == MovedFrom(w.m_pointer)

\* not_null<T>::as_nullable() const &.
as_nullable(w) == w.m_pointer

\* Mutant of as_nullable_rvalue: it hands out an empty T.
as_nullable_rvalue_empty(w) == [w.m_pointer EXCEPT !.addr = nullptr]

\* Mutant of as_nullable_rvalue: the call itself moves the member out.
as_nullable_rvalue_releasing(w) == MovedFrom(w.m_pointer)

\* not_null<T>::as_nullable() &&: a T&& that refers to the member itself.
as_nullable_rvalue(w) == w.m_pointer

\* Mutant of get: the address is resolved from a member that was moved
\* from.
get_after_move(w) == not_null_to_address(MovedFrom(w.m_pointer))

\* not_null<T>::get().
get(w) == not_null_to_address(w.m_pointer)

\* Mutant of operator_bool: it converts the held value.
operator_bool_forwarding(w) == w.m_pointer.addr # nullptr

\* not_null<T>::operator bool().
operator_bool(w) == TRUE

\* not_null<T>::operator->().
operator_arrow(w) == get(w)

\* not_null<T>::operator*(): the object at the address get() returns.
operator_star(w) == [object_at |-> get(w).addr]

\* ------------------------------------------------------------- factories

\* Mutant of assume_not_null: the argument is moved from whatever its value
\* category.
assume_not_null_consuming(ptr, cat) ==
    [signal |-> "none", obj |-> make(ptr, cat).obj, arg |-> MovedFrom(ptr),
     printed |-> <<>>, thrown |-> NoException]

\* Mutant of assume_not_null: it throws on a null argument.
assume_not_null_checking(ptr, cat) ==
    IF ptr.addr # nullptr
    THEN [signal |-> "none", obj |-> make(ptr, cat).obj,
          arg |-> make(ptr, cat).arg, printed |-> <<>>, thrown |-> NoException]
    ELSE [signal |-> "throw", obj |-> NoObject, arg |-> ptr,
          printed |-> <<>>, thrown |-> not_null_contract_violation]

\* assume_not_null(T&& ptr).
assume_not_null(ptr, cat) ==
    LET r == make(ptr, cat)
    IN  [signal |-> "none", obj |-> r.obj, arg |-> r.arg,
         printed |-> <<>>, thrown |-> NoException]

\* Mutant of check_not_null: the null test is missing.
check_not_null_untested(ptr, cat, disabled) == assume_not_null(ptr, cat)

\* Mutant of check_not_null: the null test is inverted.
check_not_null_inverted(ptr, cat, disabled) ==
    IF ptr.addr = nullptr
    THEN assume_not_null(ptr, cat)
    ELSE LET e == throw_null_pointer_error(disabled)
         IN  [signal |-> e.signal, obj |-> NoObject, arg |-> ptr,
              printed |-> e.printed, thrown |-> e.thrown]

\* Mutant of check_not_null: with exceptions disabled it reports every call
\* on stderr.
check_not_null_tracing(ptr, cat, disabled) ==
    IF ptr.addr # nullptr
    THEN [assume_not_null(ptr, cat) EXCEPT
             !.printed = IF disabled THEN <<"check_not_null">> ELSE <<>>]
    ELSE LET e == throw_null_pointer_error(disabled)
         IN  [signal |-> e.signal, obj |-> NoObject, arg |-> ptr,
              printed |-> e.printed, thrown |-> e.thrown]

\* Mutant of check_not_null: the argument is forwarded into a wrapper
\* before the null test is made.
check_not_null_wrapping_first(ptr, cat, disabled) ==
    LET w == assume_not_null(ptr, cat)
    IN  IF ptr.addr # nullptr
        THEN w
        ELSE LET e == throw_null_pointer_error(disabled)
             IN  [signal |-> e.signal, obj |-> w.obj, arg |-> w.arg,
                  printed |-> e.printed, thrown |-> e.thrown]

\* check_not_null(T&& ptr): the null test comes first; on a null argument
\* throw_null_pointer_error leaves the expression and nothing is forwarded.
check_not_null(ptr, cat, disabled) ==
    IF ptr.addr # nullptr
    THEN assume_not_null(ptr, cat)
    ELSE LET e == throw_null_pointer_error(disabled)
         IN  [signal |-> e.signal, obj |-> NoObject, arg |-> ptr,
              printed |-> e.printed, thrown |-> e.thrown]

\* ---------------------------------------------- constructors / assignment
\* Each returns the object built (or assigned to) and the source afterwards.

\* Mutant of copy_ctor: it moves out of the source.
copy_ctor_moving(other) ==
    [obj |-> Wrapper(Construct(other.m_pointer.type, other.m_pointer)),
     other |-> Wrapper(MovedFrom(other.m_pointer))]

\* not_null(const not_null&) = default.
copy_ctor(other) ==
    [obj |-> Wrapper(Construct(other.m_pointer.type, other.m_pointer)),
     other |-> other]

\* Mutant of move_ctor: the member is copied, the source keeps its value.
move_ctor_copying(other) ==
    [obj |-> Wrapper(Construct(other.m_pointer.type, other.m_pointer)),
     other |-> other]

\* Mutant of move_ctor: the new member is read from the source after the
\* source was moved from.
move_ctor_use_after_move(other) ==
    [obj |-> Wrapper(MovedFrom(other.m_pointer)),
     other |-> Wrapper(MovedFrom(other.m_pointer))]

\* not_null(not_null&&) = default: the member is moved, as_nullable() is
\* not involved.
move_ctor(other) ==
    [obj |-> Wrapper(Construct(other.m_pointer.type, other.m_pointer)),
     other |-> Wrapper(MovedFrom(other.m_pointer))]

\* Mutant of converting_copy_ctor: it moves out of the source.
converting_copy_ctor_moving(T, other) ==
    [obj |-> Wrapper(Construct(T, as_nullable(other))),
     other |-> Wrapper(MovedFrom(as_nullable(other)))]

\* not_null<T>::not_null(const not_null<U>& other), implicit and explicit:
\* m_pointer(other.as_nullable()).
converting_copy_ctor(T, other) ==
    [obj |-> Wrapper(Construct(T, as_nullable(other))),
     other |-> other]

\* Mutant of converting_move_ctor: it copies, the source keeps its value.
converting_move_ctor_copying(T, other) ==
    [obj |-> Wrapper(Construct(T, as_nullable(other))),
     other |-> other]

\* not_null<T>::not_null(not_null<U>&& other), implicit and explicit:
\* m_pointer(static_cast<not_null<U>&&>(other).as_nullable()).
converting_move_ctor(T, other) ==
    [obj |-> Wrapper(Construct(T, as_nullable_rvalue(other))),
     other |-> Wrapper(MovedFrom(as_nullable_rvalue(other)))]

\* operator=(const not_null&) = default.
copy_assign(self, other) ==
    [obj |-> Wrapper(Construct(self.m_pointer.type, other.m_pointer)),
     other |-> other]

\* Mutant of move_assign: the two objects exchange their values.
move_assign_swapping(self, other) ==
    [obj |-> other, other |-> self]

\* operator=(not_null&&) = default.
move_assign(self, other) ==
    [obj |-> Wrapper(Construct(self.m_pointer.type, other.m_pointer)),
     other |-> Wrapper(MovedFrom(other.m_pointer))]

\* Mutant of converting_copy_assign: the target keeps its value.
converting_copy_assign_keeping(self, other) ==
    [obj |-> self, other |-> other]

\* not_null<T>::operator=(const not_null<U>& other):
\* m_pointer = other.as_nullable().
converting_copy_assign(self, other) ==
    [obj |-> Wrapper(Construct(self.m_pointer.type, as_nullable(other))),
     other |-> other]

\* not_null<T>::operator=(not_null<U>&& other):
\* m_pointer = static_cast<not_null<U>&&>(other).as_nullable().
converting_move_assign(self, other) ==
    [obj |-> Wrapper(Construct(self.m_pointer.type, as_nullable_rvalue(other))),
     other |-> Wrapper(MovedFrom(as_nullable_rvalue(other)))]

\* ------------------------------------------------------------ comparisons

EQ == "=="
NE == "!="
LT == "<"
GT == ">"
LE == "<="
GE == ">="

EqualityOps == {EQ, NE}

OrderingOps == {LT, GT, LE, GE}

CompareOps == EqualityOps \cup OrderingOps

\* The payload's own operator, applied to two unwrapped values: pointers and
\* handles compare by the address they refer to.
PayloadCompare(op, x, y) ==
    CASE op = EQ -> x.addr = y.addr
      [] op = NE -> x.addr # y.addr
      [] op = LT -> x.addr < y.addr
      [] op = GT -> x.addr > y.addr
      [] op = LE -> x.addr <= y.addr
      [] op = GE -> x.addr >= y.addr

\* Mutant of operator_eq_null: it asks the held value.
operator_eq_null_forwarding(lhs) == lhs.m_pointer.addr = nullptr

\* operator==(const not_null<T>&, std::nullptr_t).
operator_eq_null(lhs) == FALSE

\* operator==(std::nullptr_t, const not_null<T>&).
operator_null_eq(rhs) == FALSE

\* Mutant of operator_ne_null: it compares the held value.
operator_ne_null_forwarding(lhs) == lhs.m_pointer.addr # nullptr

\* operator!=(const not_null<T>&, std::nullptr_t).
operator_ne_null(lhs) == TRUE

\* operator!=(std::nullptr_t, const not_null<T>&).
operator_null_ne(rhs) == TRUE

\* operator==(const not_null<T>&, const not_null<U>&), then (wrapper, value)
\* and (value, wrapper).
operator_eq_nn(lhs, rhs) == PayloadCompare(EQ, as_nullable(lhs), as_nullable(rhs))
operator_eq_nv(lhs, rhs) == PayloadCompare(EQ, as_nullable(lhs), rhs)
operator_eq_vn(lhs, rhs) == PayloadCompare(EQ, lhs, as_nullable(rhs))

\* Mutant of operator_ne_vn: it forwards to ==.
operator_ne_vn_as_eq(lhs, rhs) == PayloadCompare(EQ, lhs, as_nullable(rhs))

\* operator!=.
operator_ne_nn(lhs, rhs) == PayloadCompare(NE, as_nullable(lhs), as_nullable(rhs))
operator_ne_nv(lhs, rhs) == PayloadCompare(NE, as_nullable(lhs), rhs)
operator_ne_vn(lhs, rhs) == PayloadCompare(NE, lhs, as_nullable(rhs))

\* operator<.
operator_lt_nn(lhs, rhs) == PayloadCompare(LT, as_nullable(lhs), as_nullable(rhs))
operator_lt_nv(lhs, rhs) == PayloadCompare(LT, as_nullable(lhs), rhs)
operator_lt_vn(lhs, rhs) == PayloadCompare(LT, lhs, as_nullable(rhs))

\* operator>.
operator_gt_nn(lhs, rhs) == PayloadCompare(GT, as_nullable(lhs), as_nullable(rhs))
operator_gt_nv(lhs, rhs) == PayloadCompare(GT, as_nullable(lhs), rhs)
operator_gt_vn(lhs, rhs) == PayloadCompare(GT, lhs, as_nullable(rhs))

\* Mutant of operator_le_nn: it forwards to <.
operator_le_nn_as_lt(lhs, rhs) ==
    PayloadCompare(LT, as_nullable(lhs), as_nullable(rhs))

\* operator<=.
operator_le_nn(lhs, rhs) == PayloadCompare(LE, as_nullable(lhs), as_nullable(rhs))
operator_le_nv(lhs, rhs) == PayloadCompare(LE, as_nullable(lhs), rhs)
operator_le_vn(lhs, rhs) == PayloadCompare(LE, lhs, as_nullable(rhs))

\* operator>=.
operator_ge_nn(lhs, rhs) == PayloadCompare(GE, as_nullable(lhs), as_nullable(rhs))
operator_ge_nv(lhs, rhs) == PayloadCompare(GE, as_nullable(lhs), rhs)
operator_ge_vn(lhs, rhs) == PayloadCompare(GE, lhs, as_nullable(rhs))

\* The overload an expression  lhs op rhs  selects, by the shape of its
\* operands: two wrappers, a wrapper and a value, a value and a wrapper.
CompareNN(op, lhs, rhs) ==
    CASE op = EQ -> operator_eq_nn(lhs, rhs)
      [] op = NE -> operator_ne_nn(lhs, rhs)
      [] op = LT -> operator_lt_nn(lhs, rhs)
      [] op = GT -> operator_gt_nn(lhs, rhs)
      [] op = LE -> operator_le_nn(lhs, rhs)
      [] op = GE -> operator_ge_nn(lhs, rhs)

CompareNV(op, lhs, rhs) ==
    CASE op = EQ -> operator_eq_nv(lhs, rhs)
      [] op = NE -> operator_ne_nv(lhs, rhs)
      [] op = LT -> operator_lt_nv(lhs, rhs)
      [] op = GT -> operator_gt_nv(lhs, rhs)
      [] op = LE -> operator_le_nv(lhs, rhs)
      [] op = GE -> operator_ge_nv(lhs, rhs)

CompareVN(op, lhs, rhs) ==
    CASE op = EQ -> operator_eq_vn(lhs, rhs)
      [] op = NE -> operator_ne_vn(lhs, rhs)
      [] op = LT -> operator_lt_vn(lhs, rhs)
      [] op = GT -> operator_gt_vn(lhs, rhs)
      [] op = LE -> operator_le_vn(lhs, rhs)
      [] op = GE -> operator_ge_vn(lhs, rhs)

\* ------------------------------------------------- the class's interface

\* The member functions declared public and defined.
PublicMembers ==
    {"copy_ctor", "move_ctor", "converting_copy_ctor", "converting_move_ctor",
     "copy_assign", "move_assign", "converting_copy_assign",
     "converting_move_assign", "get", "operator bool", "as_nullable",
     "as_nullable_rvalue", "operator->", "operator*"}

\* not_null() = delete.
DefaultCtor == "not_null()"

\* The operators declared as deleted.
ArithmeticMembers ==
    {"operator++()", "operator--()", "operator++(int)", "operator--(int)",
     "operator+=", "operator-=", "operator[]"}

DeletedMembers == ArithmeticMembers \cup {DefaultCtor}

\* not_null(ctor_tag, P&&), the one constructor that takes a value.
ValueCtor == "not_null(ctor_tag, P&&)"

PrivateMembers == {ValueCtor}

\* friend detail::not_null_factory.
Friends == {"detail::not_null_factory"}

\* Code that may name a member: the user's, the two factories, the friend.
Callers ==
    {"user", "assume_not_null", "check_not_null", "detail::not_null_factory"}

\* Mutant of IsUsable: a deleted member can be called.
IsUsableThoughDeleted(member, caller) ==
    \/ member \in PublicMembers \cup DeletedMembers
    \/ member \in PrivateMembers /\ caller \in Friends

\* Mutant of IsUsable: a private member can be called by anyone.
IsUsableThoughPrivate(member, caller) ==
    /\ member \notin DeletedMembers
    /\ member \in PublicMembers \cup PrivateMembers

\* An expression that calls the member compiles in the caller's code.
IsUsable(member, caller) ==
    /\ member \notin DeletedMembers
    /\ \/ member \in PublicMembers
       \/ member \in PrivateMembers /\ caller \in Friends

\* ------------------------------------------------------------------ state

VARIABLES
    m_pointer,           \* slot -> the value the wrapper in it holds, or Nothing
    history,             \* what happened to each wrapper (kept when history.on)
    last,                \* the operation that ran last, its operands and result
    pc,                  \* running, unwinding, aborting, aborted, terminated,
                         \* undefined
    exception,           \* the exception in flight
    stderr,              \* what was printed to stderr
    disable_exceptions   \* NOT_NULL_DISABLE_EXCEPTIONS is defined

vars == <<m_pointer, history, last, pc, exception, stderr, disable_exceptions>>

\* history.lineage[i]:   the wrapper in slot i descends from check_not_null or
\*                       from assume_not_null of a non-null value
\* history.intact[i]:    its value came that way, and neither the wrapper nor
\*                       a wrapper the value came through was moved from
\* history.rv_called[i]: as_nullable() && was called on it
NoHistory(on) ==
    [on |-> on,
     lineage |-> [i \in Slots |-> FALSE],
     intact |-> [i \in Slots |-> FALSE],
     rv_called |-> [i \in Slots |-> FALSE]]

\* The history h with the three entries of slot i set.
Noted(h, i, l, n, r) ==
    IF h.on
    THEN [h EXCEPT !.lineage[i] = l, !.intact[i] = n, !.rv_called[i] = r]
    ELSE h

NoLast ==
    [op |-> "none", cmp |-> "none", dst |-> 0, src |-> 0, arg |-> Nothing,
     after |-> Nothing, out |-> Nothing, ret |-> FALSE, signal |-> "none"]

Alive(i) == m_pointer[i] # Nothing

\* The wrapper object in slot i.
W(i) == Wrapper(m_pointer[i])

\* The program starts with no wrapper; the build mode is fixed for the run.
Start(on) ==
    /\ m_pointer = [i \in Slots |-> Nothing]
    /\ history = NoHistory(on)
    /\ last = NoLast
    /\ pc = "running"
    /\ exception = NoException
    /\ stderr = <<>>
    /\ disable_exceptions \in BOOLEAN

Init == Start(FALSE)

InitHistory == Start(TRUE)

\* Where control is once a factory has signalled.
AfterSignal(signal) ==
    CASE signal = "none" -> "running"
      [] signal = "throw" -> "unwinding"
      [] signal = "abort" -> "aborting"

\* A factory call whose outcome is r, its result bound to a new object in
\* slot dst.  cat: the value category of the argument; good: the wrapper, if
\* one is made, counts as non-null by origin.
Produce(name, dst, ptr, cat, r, good) ==
    LET made == r.obj # NoObject
    IN  /\ m_pointer' = IF made
                        THEN [m_pointer EXCEPT ![dst] = r.obj.m_pointer]
                        ELSE m_pointer
        /\ history' = IF made THEN Noted(history, dst, good, good, FALSE)
                      ELSE history
        /\ last' = [NoLast EXCEPT !.op = name,
                                  !.cmp = cat,
                                  !.dst = IF made THEN dst ELSE 0,
                                  !.arg = ptr,
                                  !.after = r.arg,
                                  !.out = r.obj.m_pointer,
                                  !.signal = r.signal]
        /\ pc' = AfterSignal(r.signal)
        /\ exception' = r.thrown
        /\ stderr' = stderr \o r.printed
        /\ UNCHANGED disable_exceptions

\* auto w = assume_not_null(ptr);  an lvalue argument has to be copyable.
AssumeNotNull(dst, ptr, cat) ==
    /\ pc = "running"
    /\ ~Alive(dst)
    /\ cat = LVALUE => IsCopyable(ptr.type)
    /\ Produce("assume_not_null", dst, ptr, cat, assume_not_null(ptr, cat),
               ~IsNull(ptr))

\* auto w = check_not_null(ptr);
CheckNotNull(dst, ptr, cat) ==
    /\ pc = "running"
    /\ ~Alive(dst)
    /\ cat = LVALUE => IsCopyable(ptr.type)
    /\ Produce("check_not_null", dst, ptr, cat,
               check_not_null(ptr, cat, disable_exceptions), TRUE)

\* The types a handler has to name to catch an exception of the given type.
ExceptionBases(type) ==
    IF type = "not_null_contract_violation"
    THEN {"not_null_contract_violation", "logic_error", "exception"}
    ELSE {}

HandlerTypes ==
    {"not_null_contract_violation", "logic_error", "exception", "runtime_error"}

\* The nearest enclosing handler that matches catches the exception.
Catch(h) ==
    /\ pc = "unwinding"
    /\ h \in ExceptionBases(exception.type)
    /\ pc' = "running"
    /\ exception' = NoException
    /\ last' = [NoLast EXCEPT !.op = "catch", !.signal = h]
    /\ UNCHANGED <<m_pointer, history, stderr, disable_exceptions>>

\* No handler matches: std::terminate.
Terminate ==
    /\ pc = "unwinding"
    /\ pc' = "terminated"
    /\ last' = [NoLast EXCEPT !.op = "terminate"]
    /\ UNCHANGED <<m_pointer, history, exception, stderr, disable_exceptions>>

\* std::abort() after the message was printed.
Abort ==
    /\ pc = "aborting"
    /\ pc' = "aborted"
    /\ last' = [NoLast EXCEPT !.op = "abort"]
    /\ UNCHANGED <<m_pointer, history, exception, stderr, disable_exceptions>>

\* The end of a wrapper's lifetime.
Destroy(i) ==
    /\ pc = "running"
    /\ Alive(i)
    /\ m_pointer' = [m_pointer EXCEPT ![i] = Nothing]
    /\ history' = Noted(history, i, FALSE, FALSE, FALSE)
    /\ last' = [NoLast EXCEPT !.op = "destroy", !.src = i]
    /\ UNCHANGED <<pc, exception, stderr, disable_exceptions>>

\* A construction of a new object in slot dst from the wrapper in slot src, or
\* an assignment to the wrapper in dst from the one in src, with result r.
\* moved: the source was moved from; via_rvalue: through its as_nullable() &&.
Transfer(name, dst, src, r, moved, via_rvalue) ==
    /\ m_pointer' = [m_pointer EXCEPT ![src] = r.other.m_pointer,
                                      ![dst] = r.obj.m_pointer]
    /\ history' =
          Noted(Noted(history, src,
                      history.lineage[src],
                      history.intact[src] /\ ~moved,
                      history.rv_called[src] \/ via_rvalue),
                dst,
                IF Alive(dst)
                THEN history.lineage[dst] /\ history.lineage[src]
                ELSE history.lineage[src],
                history.intact[src],
                Alive(dst) /\ history.rv_called[dst])
    /\ last' = [NoLast EXCEPT !.op = name, !.dst = dst, !.src = src,
                              !.arg = m_pointer[src],
                              !.after = r.other.m_pointer,
                              !.out = r.obj.m_pointer]
    /\ UNCHANGED <<pc, exception, stderr, disable_exceptions>>

\* An assignment of an object to itself leaves it as it was.
SelfAssign(name, i) ==
    /\ last' = [NoLast EXCEPT !.op = name, !.dst = i, !.src = i,
                              !.arg = m_pointer[i], !.after = m_pointer[i],
                              !.out = m_pointer[i]]
    /\ UNCHANGED <<m_pointer, history, pc, exception, stderr,
                   disable_exceptions>>

\* not_null<T> w{other};
CopyConstruct(dst, src) ==
    /\ pc = "running"
    /\ Alive(src) /\ ~Alive(dst)
    /\ IsCopyable(m_pointer[src].type)
    /\ Transfer("copy_ctor", dst, src, copy_ctor(W(src)), FALSE, FALSE)

\* not_null<T> w{std::move(other)};
MoveConstruct(dst, src) ==
    /\ pc = "running"
    /\ Alive(src) /\ ~Alive(dst)
    /\ Transfer("move_ctor", dst, src, move_ctor(W(src)), TRUE, FALSE)

\* not_null<T> w{other};  with other a not_null<U>, U another type.
ConvertCopyConstruct(dst, src, T) ==
    /\ pc = "running"
    /\ Alive(src) /\ ~Alive(dst)
    /\ T # m_pointer[src].type
    /\ \/ not_null_is_implicit_convertible(T, m_pointer[src].type, LVALUE)
       \/ not_null_is_explicit_convertible(T, m_pointer[src].type, LVALUE)
    /\ Transfer("converting_copy_ctor", dst, src,
                converting_copy_ctor(T, W(src)), FALSE, FALSE)

\* not_null<T> w{std::move(other)};  with other a not_null<U>.
ConvertMoveConstruct(dst, src, T) ==
    /\ pc = "running"
    /\ Alive(src) /\ ~Alive(dst)
    /\ T # m_pointer[src].type
    /\ \/ not_null_is_implicit_convertible(T, m_pointer[src].type, RVALUE)
       \/ not_null_is_explicit_convertible(T, m_pointer[src].type, RVALUE)
    /\ Transfer("converting_move_ctor", dst, src,
                converting_move_ctor(T, W(src)), TRUE, TRUE)

\* w = other;  same type.
CopyAssign(dst, src) ==
    /\ pc = "running"
    /\ Alive(src) /\ Alive(dst)
    /\ m_pointer[dst].type = m_pointer[src].type
    /\ IsCopyable(m_pointer[src].type)
    /\ IF dst = src
       THEN SelfAssign("copy_assign", dst)
       ELSE Transfer("copy_assign", dst, src, copy_assign(W(dst), W(src)),
                     FALSE, FALSE)

\* w = std::move(other);  same type.
MoveAssign(dst, src) ==
    /\ pc = "running"
    /\ Alive(src) /\ Alive(dst)
    /\ m_pointer[dst].type = m_pointer[src].type
    /\ IF dst = src
       THEN SelfAssign("move_assign", dst)
       ELSE Transfer("move_assign", dst, src, move_assign(W(dst), W(src)),
                     TRUE, FALSE)

\* w = other;  with other a not_null<U>, U another type.
ConvertCopyAssign(dst, src) ==
    /\ pc = "running"
    /\ Alive(src) /\ Alive(dst)
    /\ m_pointer[dst].type # m_pointer[src].type
    /\ IsAssignable(m_pointer[dst].type, m_pointer[src].type, LVALUE)
    /\ Transfer("converting_copy_assign", dst, src,
                converting_copy_assign(W(dst), W(src)), FALSE, FALSE)

\* w = std::move(other);  with other a not_null<U>.
ConvertMoveAssign(dst, src) ==
    /\ pc = "running"
    /\ Alive(src) /\ Alive(dst)
    /\ m_pointer[dst].type # m_pointer[src].type
    /\ IsAssignable(m_pointer[dst].type, m_pointer[src].type, RVALUE)
    /\ Transfer("converting_move_assign", dst, src,
                converting_move_assign(W(dst), W(src)), TRUE, TRUE)

DISCARD == "discard"
MOVE_OUT == "move"

Uses == {DISCARD, MOVE_OUT}

\* std::move(w).as_nullable(), and what the caller does with the reference:
\* nothing, or  T p = std::move(w).as_nullable();  which moves the member out.
AsNullableRvalue(src, use) ==
    /\ pc = "running"
    /\ Alive(src)
    /\ LET ref == as_nullable_rvalue(W(src))
           taken == use = MOVE_OUT
       IN  /\ m_pointer' = [m_pointer EXCEPT ![src] =
                               IF taken THEN MovedFrom(ref) ELSE ref]
           /\ history' = Noted(history, src, history.lineage[src],
                               history.intact[src] /\ ~taken, TRUE)
           /\ last' = [NoLast EXCEPT
                          !.op = "as_nullable_rvalue", !.cmp = use, !.src = src,
                          !.arg = m_pointer[src],
                          !.after = IF taken THEN MovedFrom(ref) ELSE ref,
                          !.out = IF taken THEN Construct(ref.type, ref)
                                  ELSE Nothing]
    /\ UNCHANGED <<pc, exception, stderr, disable_exceptions>>

\* A const member function called on the wrapper in slot i.  It returns
\* value (ret for a bool); where the call has undefined behaviour the build
\* either returns that value or stops the program.
Observe(name, i, value, ret, defined) ==
    /\ pc = "running"
    /\ Alive(i)
    /\ \/ /\ last' = [NoLast EXCEPT !.op = name, !.src = i,
                                     !.arg = m_pointer[i], !.out = value,
                                     !.ret = ret]
          /\ pc' = pc
       \/ /\ ~defined
          /\ last' = [NoLast EXCEPT !.op = name, !.src = i,
                                     !.arg = m_pointer[i],
                                     !.signal = "undefined"]
          /\ pc' = "undefined"
    /\ UNCHANGED <<m_pointer, history, exception, stderr, disable_exceptions>>

\* w.get()
Get(i) ==
    Observe("get", i, get(W(i)), FALSE, HasValidChain(m_pointer[i]))

\* w.operator->()
OperatorArrow(i) ==
    Observe("operator->", i, operator_arrow(W(i)), FALSE,
            HasValidChain(m_pointer[i]))

\* *w: a reference to the object at the address; there has to be an object,
\* and no void* can be dereferenced.
OperatorStar(i) ==
    /\ m_pointer[i].type # SHARED_VOID
    /\ Observe("operator*", i,
               [type |-> "int&", addr |-> operator_star(W(i)).object_at],
               FALSE, ~IsNull(m_pointer[i]))

\* static_cast<bool>(w)
OperatorBool(i) ==
    Observe("operator bool", i, Nothing, operator_bool(W(i)), TRUE)

\* w.as_nullable() on an lvalue: a const T& to the member.
AsNullable(i) ==
    Observe("as_nullable", i, as_nullable(W(i)), FALSE, TRUE)

NullForms == {"w==nullptr", "nullptr==w", "w!=nullptr", "nullptr!=w"}

\* Which of the four overloads against std::nullptr_t an expression selects.
CompareNullptr(form, w) ==
    CASE form = "w==nullptr" -> operator_eq_null(w)
      [] form = "nullptr==w" -> operator_null_eq(w)
      [] form = "w!=nullptr" -> operator_ne_null(w)
      [] form = "nullptr!=w" -> operator_null_ne(w)

\* w == nullptr, nullptr == w, w != nullptr, nullptr != w.
CompareWithNull(i, form) ==
    /\ pc = "running"
    /\ Alive(i)
    /\ last' = [NoLast EXCEPT !.op = "compare_null", !.cmp = form, !.src = i,
                              !.ret = CompareNullptr(form, W(i))]
    /\ UNCHANGED <<m_pointer, history, pc, exception, stderr,
                   disable_exceptions>>

\* a op b for two wrappers whose payloads can be compared.
CompareWrappers(op, a, b) ==
    /\ pc = "running"
    /\ Alive(a) /\ Alive(b)
    /\ IsComparable(m_pointer[a].type, m_pointer[b].type)
    /\ last' = [NoLast EXCEPT !.op = "compare_nn", !.cmp = op, !.src = a,
                              !.dst = b, !.ret = CompareNN(op, W(a), W(b))]
    /\ UNCHANGED <<m_pointer, history, pc, exception, stderr,
                   disable_exceptions>>

\* a op v for a wrapper and a plain value.
CompareWrapperValue(op, a, v) ==
    /\ pc = "running"
    /\ Alive(a)
    /\ IsComparable(m_pointer[a].type, v.type)
    /\ last' = [NoLast EXCEPT !.op = "compare_nv", !.cmp = op, !.src = a,
                              !.arg = v, !.ret = CompareNV(op, W(a), v)]
    /\ UNCHANGED <<m_pointer, history, pc, exception, stderr,
                   disable_exceptions>>

\* v op b for a plain value and a wrapper.
CompareValueWrapper(op, v, b) ==
    /\ pc = "running"
    /\ Alive(b)
    /\ IsComparable(v.type, m_pointer[b].type)
    /\ last' = [NoLast EXCEPT !.op = "compare_vn", !.cmp = op, !.dst = b,
                              !.arg = v, !.ret = CompareVN(op, v, W(b))]
    /\ UNCHANGED <<m_pointer, history, pc, exception, stderr,
                   disable_exceptions>>

\* ---------------------------------------------------------- specifications

\* The life of the wrappers: factories, constructors, assignments, the
\* consuming unwrap, the comparisons with nullptr, and the error paths.
Next ==
    \/ \E dst \in Slots, ptr \in Values, cat \in Categories :
          AssumeNotNull(dst, ptr, cat)
    \/ \E dst \in Slots, ptr \in Values, cat \in Categories :
          CheckNotNull(dst, ptr, cat)
    \/ \E h \in HandlerTypes : Catch(h)
    \/ Terminate
    \/ Abort
    \/ \E i \in Slots : Destroy(i)
    \/ \E dst, src \in Slots : CopyConstruct(dst, src)
    \/ \E dst, src \in Slots : MoveConstruct(dst, src)
    \/ \E dst, src \in Slots, T \in Types : ConvertCopyConstruct(dst, src, T)
    \/ \E dst, src \in Slots, T \in Types : ConvertMoveConstruct(dst, src, T)
    \/ \E dst, src \in Slots : CopyAssign(dst, src)
    \/ \E dst, src \in Slots : MoveAssign(dst, src)
    \/ \E dst, src \in Slots : ConvertCopyAssign(dst, src)
    \/ \E dst, src \in Slots : ConvertMoveAssign(dst, src)
    \/ \E src \in Slots, use \in Uses : AsNullableRvalue(src, use)
    \/ \E i \in Slots, form \in NullForms : CompareWithNull(i, form)
    \/ \E i \in Slots : Get(i)
    \/ \E i \in Slots : OperatorArrow(i)
    \/ \E i \in Slots : OperatorStar(i)
    \/ \E i \in Slots : OperatorBool(i)
    \/ \E i \in Slots : AsNullable(i)

Spec == Init /\ [][Next]_vars

\* The same program, with the history of each wrapper recorded.
SpecHistory == InitHistory /\ [][Next]_vars

\* The comparison operators are pure: they are applied to wrappers holding
\* any value a wrapper can hold (a null one too: assume_not_null(nullptr), or
\* a handle that was moved from).
InitCompare ==
    /\ m_pointer \in [Slots -> Values]
    /\ history = NoHistory(FALSE)
    /\ last = NoLast
    /\ pc = "running"
    /\ exception = NoException
    /\ stderr = <<>>
    /\ disable_exceptions = FALSE

NextCompare ==
    \/ \E op \in CompareOps, a, b \in Slots : CompareWrappers(op, a, b)
    \/ \E op \in CompareOps, a \in Slots, v \in Values :
          CompareWrapperValue(op, a, v)
    \/ \E op \in CompareOps, v \in Values, b \in Slots :
          CompareValueWrapper(op, v, b)

SpecCompare == InitCompare /\ [][NextCompare]_vars

\* Every const operation, applied to wrappers holding any value.
NextObserve ==
    \/ NextCompare
    \/ \E i \in Slots, form \in NullForms : CompareWithNull(i, form)
    \/ \E i \in Slots : Get(i)
    \/ \E i \in Slots : OperatorArrow(i)
    \/ \E i \in Slots : OperatorStar(i)
    \/ \E i \in Slots : OperatorBool(i)
    \/ \E i \in Slots : AsNullable(i)

\* The wrappers the const operations are applied to hold any value, of a
\* layered handle type too.
InitObserve ==
    /\ m_pointer \in [Slots -> Values \cup LayeredValues]
    /\ history = NoHistory(FALSE)
    /\ last = NoLast
    /\ pc = "running"
    /\ exception = NoException
    /\ stderr = <<>>
    /\ disable_exceptions = FALSE

SpecObserve == InitObserve /\ [][NextObserve]_vars

\* std::abort() is the statement after std::fprintf: once the message is
\* printed the abort is not held back.
SpecAbort == Init /\ [][Next]_vars /\ WF_vars(Abort)

\* ------------------------------------------------------------ properties

\* The wrapper the last operation produced or assigned to.
Result == W(last.dst)

\* C1 as stated: a wrapper that descends from check_not_null or from
\* assume_not_null of a non-null value holds a non-null value as long as
\* as_nullable() && has not been called on it.  (SpecHistory)
C1_NonNullUntilRvalueAsNullable ==
    \A i \in Slots :
        Alive(i) /\ history.lineage[i] /\ ~history.rv_called[i]
            => as_nullable(W(i)).addr # nullptr

\* C1, amended: a wrapper whose value comes from check_not_null or from
\* assume_not_null of a non-null value, directly or through constructions
\* and assignments from wrappers that had not been moved from, holds a
\* non-null value until it is itself moved from: as the source of a move
\* construction or move assignment, of a converting move, or of a consuming
\* as_nullable() whose result is moved out.  (SpecHistory)
C1_NonNullWhileIntact ==
    \A i \in Slots :
        Alive(i) /\ history.intact[i] => as_nullable(W(i)).addr # nullptr

\* C1 witness: an owning handle went from one wrapper into a wrapper of a
\* shared handle; the target is intact and non-null, the source is spent.
C1_Witness ==
    /\ last.op = "converting_move_ctor"
    /\ last.arg.type = UNIQUE
    /\ last.arg.addr # nullptr
    /\ history.intact[last.dst]
    /\ as_nullable(W(last.dst)).addr # nullptr
    /\ ~history.intact[last.src]
    /\ as_nullable(W(last.src)).addr = nullptr

\* C2: check_not_null of a null value signals the contract violation (it
\* throws, or prints and aborts) and produces no wrapper.
C2_CheckNullSignals ==
    last.op = "check_not_null" /\ IsNull(last.arg)
        => /\ last.signal \in {"throw", "abort"}
           /\ pc \in {"unwinding", "aborting"}
           /\ last.out = Nothing
           /\ last.dst = 0

\* C2 witness: check_not_null(static_cast<int*>(nullptr)) has thrown.
C2_Witness ==
    /\ last.op = "check_not_null"
    /\ last.arg = [type |-> RAW, addr |-> nullptr]
    /\ last.signal = "throw"
    /\ pc = "unwinding"

\* C3: check_not_null of a non-null value v signals nothing and returns a
\* wrapper w with w.as_nullable() == v, so w.as_nullable() != nullptr.
C3_CheckThenUnwrap ==
    last.op = "check_not_null" /\ ~IsNull(last.arg)
        => /\ last.signal = "none"
           /\ pc = "running"
           /\ last.dst \in Slots
           /\ as_nullable(Result) = last.arg
           /\ as_nullable(Result).addr # nullptr

\* C3 witness: check_not_null(std::make_shared<int>(42)) has returned.
C3_Witness ==
    /\ last.op = "check_not_null"
    /\ last.arg.type = SHARED
    /\ last.arg.addr # nullptr
    /\ last.dst \in Slots

\* C4: assume_not_null(v) returns a wrapper w with w.as_nullable() == v, not
\* null when v is not; no null test decides anything: nothing is signalled
\* and v is wrapped whatever it is.
C4_AssumePassThrough ==
    last.op = "assume_not_null"
        => /\ last.signal = "none"
           /\ pc = "running"
           /\ last.dst \in Slots
           /\ as_nullable(Result) = last.arg
           /\ (~IsNull(last.arg) => as_nullable(Result).addr # nullptr)

\* C4 witness: assume_not_null(std::move(p)) of a non-null unique_ptr p.
C4_Witness ==
    /\ last.op = "assume_not_null"
    /\ last.arg.type = UNIQUE
    /\ last.arg.addr # nullptr
    /\ last.after.addr = nullptr
    /\ last.dst \in Slots

\* C5: whatever a wrapper holds, w == nullptr and nullptr == w are false and
\* w != nullptr and nullptr != w are true.
C5_NullComparisonConstant ==
    /\ last.op = "compare_null"
          => last.ret = (last.cmp \in {"w!=nullptr", "nullptr!=w"})
    /\ \A i \in Slots :
          Alive(i) => /\ ~operator_eq_null(W(i))
                      /\ ~operator_null_eq(W(i))
                      /\ operator_ne_null(W(i))
                      /\ operator_null_ne(W(i))

\* C5 witness: w == nullptr was false for a wrapper whose handle had been
\* moved from and is empty.
C5_Witness ==
    /\ last.op = "compare_null"
    /\ last.cmp = "w==nullptr"
    /\ m_pointer[last.src].type = UNIQUE
    /\ m_pointer[last.src].addr = nullptr
    /\ last.ret = FALSE

\* What == and != of two pointer-like values give: whether they refer to the
\* same address.
SameAddress(op, x, y) ==
    IF op = EQ THEN x.addr = y.addr ELSE x.addr # y.addr

\* C6: for wrappers a, b holding x, y, each of a == b, a == y, x == b is
\* x == y and each of a != b, a != y, x != b is x != y.  (SpecCompare)
C6_EqualityForwarding ==
    /\ last.op = "compare_nn" /\ last.cmp \in EqualityOps
          => last.ret = SameAddress(last.cmp, m_pointer[last.src],
                                    m_pointer[last.dst])
    /\ last.op = "compare_nv" /\ last.cmp \in EqualityOps
          => last.ret = SameAddress(last.cmp, m_pointer[last.src], last.arg)
    /\ last.op = "compare_vn" /\ last.cmp \in EqualityOps
          => last.ret = SameAddress(last.cmp, last.arg, m_pointer[last.dst])
    /\ \A a, b \in Slots, op \in EqualityOps :
          IsComparable(m_pointer[a].type, m_pointer[b].type)
              => LET x == m_pointer[a]
                     y == m_pointer[b]
                 IN  /\ CompareNN(op, W(a), W(b)) = SameAddress(op, x, y)
                     /\ CompareNV(op, W(a), y) = SameAddress(op, x, y)
                     /\ CompareVN(op, x, W(b)) = SameAddress(op, x, y)

\* C6 witness: x != b was true for a value and a wrapper of two allocations.
C6_Witness ==
    /\ last.op = "compare_vn"
    /\ last.cmp = NE
    /\ last.arg.type = SHARED
    /\ last.arg.addr # nullptr
    /\ m_pointer[last.dst].addr # nullptr
    /\ last.arg.addr # m_pointer[last.dst].addr
    /\ last.ret = TRUE

\* What <, >, <= and >= of two raw addresses give.
AddressOrder(op, x, y) ==
    CASE op = LT -> x.addr < y.addr
      [] op = GT -> y.addr < x.addr
      [] op = LE -> ~(y.addr < x.addr)
      [] op = GE -> ~(x.addr < y.addr)

\* C7: for wrappers a, b over addresses x, y, each of a < b, a > b, a <= b,
\* a >= b is the same operator on x and y, and so are the forms with one
\* side unwrapped; a <= b and a >= b are true when x == y.  (SpecCompare)
C7_OrderingForwarding ==
    /\ last.op = "compare_nn" /\ last.cmp \in OrderingOps
          => last.ret = AddressOrder(last.cmp, m_pointer[last.src],
                                     m_pointer[last.dst])
    /\ last.op = "compare_nv" /\ last.cmp \in OrderingOps
          => last.ret = AddressOrder(last.cmp, m_pointer[last.src], last.arg)
    /\ last.op = "compare_vn" /\ last.cmp \in OrderingOps
          => last.ret = AddressOrder(last.cmp, last.arg, m_pointer[last.dst])
    /\ \A a, b \in Slots, op \in OrderingOps :
          IsComparable(m_pointer[a].type, m_pointer[b].type)
              => LET x == m_pointer[a]
                     y == m_pointer[b]
                 IN  /\ CompareNN(op, W(a), W(b)) = AddressOrder(op, x, y)
                     /\ CompareNV(op, W(a), y) = CompareNN(op, W(a), W(b))
                     /\ CompareVN(op, x, W(b)) = CompareNN(op, W(a), W(b))
                     /\ x.addr = y.addr => /\ CompareNN(LE, W(a), W(b))
                                           /\ CompareNN(GE, W(a), W(b))

\* C7 witness: a <= b was true for two wrappers over the same raw address.
C7_Witness ==
    /\ last.op = "compare_nn"
    /\ last.cmp = LE
    /\ last.src # last.dst
    /\ m_pointer[last.src].type = RAW
    /\ m_pointer[last.src].addr # nullptr
    /\ m_pointer[last.src] = m_pointer[last.dst]
    /\ last.ret = TRUE

\* C8: a not_null<T> built from a const not_null<U>& refers to the address
\* the source holds, and the source holds afterwards what it held before.
C8_ConvertingCopyKeepsIdentity ==
    last.op = "converting_copy_ctor"
        => /\ as_nullable(Result).addr = last.arg.addr
           /\ as_nullable(Result).type # last.arg.type
           /\ as_nullable(W(last.src)) = last.arg
           /\ last.after = last.arg

\* C8 witness: a not_null<shared_ptr<void>> was built from a
\* not_null<shared_ptr<int>> that holds a non-null handle.
C8_Witness ==
    /\ last.op = "converting_copy_ctor"
    /\ last.arg.type = SHARED
    /\ last.arg.addr # nullptr
    /\ as_nullable(Result).type = SHARED_VOID

\* C9: after  w2 = std::move(w1).as_nullable()  on a wrapper w1 that held a
\* non-null value, w2 holds the value w1 held and is not null; w1 can still
\* be destroyed.
C9_ConsumingUnwrapKeepsValue ==
    last.op = "as_nullable_rvalue" /\ last.cmp = MOVE_OUT /\ ~IsNull(last.arg)
        => /\ last.out = last.arg
           /\ last.out.addr # nullptr
           /\ Alive(last.src)
           /\ ENABLED Destroy(last.src)

\* C9 witness: a non-null unique_ptr was moved out of its wrapper, which is
\* left holding an empty handle.
C9_Witness ==
    /\ last.op = "as_nullable_rvalue"
    /\ last.cmp = MOVE_OUT
    /\ last.arg.type = UNIQUE
    /\ last.arg.addr # nullptr
    /\ last.out = last.arg
    /\ m_pointer[last.src].addr = nullptr

\* C10, the state part: with exceptions enabled, check_not_null of a null
\* value leaves a not_null_contract_violation, a logic_error, in flight, which
\* a handler for either type can catch, and no wrapper for the call; once it
\* is caught the program runs on.
C10_Thrown ==
    /\ ~disable_exceptions /\ last.op = "check_not_null" /\ IsNull(last.arg)
          => /\ pc = "unwinding"
             /\ exception.type = "not_null_contract_violation"
             /\ exception.base = "logic_error"
             /\ ENABLED Catch("not_null_contract_violation")
             /\ ENABLED Catch("logic_error")
             /\ last.dst = 0
             /\ last.out = Nothing
    /\ last.op = "catch"
          => /\ ~disable_exceptions
             /\ pc = "running"
             /\ exception = NoException

\* C10, the step part: neither the throw nor the catch changes a wrapper.
C10_WrappersKept ==
    \/ pc = "running" /\ pc' = "unwinding"
    \/ pc = "unwinding" /\ pc' = "running"
    => m_pointer' = m_pointer

\* C10: in the default mode the violation is a thrown, catchable
\* not_null_contract_violation; after the catch the program continues, no
\* wrapper exists for the call and every other wrapper is as it was.
C10_DefaultModeThrows == [] C10_Thrown /\ [][C10_WrappersKept]_vars

\* C10 witness: the violation was caught as a logic_error while a wrapper
\* made before the call is alive.
C10_Witness ==
    /\ last.op = "catch"
    /\ last.signal = "logic_error"
    /\ pc = "running"
    /\ ~disable_exceptions
    /\ \E i \in Slots : Alive(i) /\ m_pointer[i].addr # nullptr

\* C11, the state part: with exceptions disabled, check_not_null of a null
\* value has printed the message to stderr and is about to abort; nothing is
\* thrown, no handler can run and no wrapper was produced.
C11_Diagnosed ==
    /\ disable_exceptions /\ last.op = "check_not_null" /\ IsNull(last.arg)
          => /\ pc = "aborting"
             /\ last.signal = "abort"
             /\ last.dst = 0
             /\ last.out = Nothing
    /\ pc \in {"aborting", "aborted"}
          => /\ disable_exceptions
             /\ stderr = <<ViolationMessage>>
             /\ exception = NoException
             /\ \A h \in HandlerTypes : ~ENABLED Catch(h)

\* C11, the step part: the only step after the message is the abort, which
\* changes no wrapper and prints nothing more, and no step follows the abort.
C11_OnlyAbort ==
    /\ pc = "aborting" => /\ pc' = "aborted"
                          /\ m_pointer' = m_pointer
                          /\ stderr' = stderr
    /\ pc # "aborted"

\* C11: with NOT_NULL_DISABLE_EXCEPTIONS, check_not_null of a null value
\* prints the diagnostic and then aborts: the abort always follows, no
\* handler runs, no wrapper is produced and nothing of the program runs
\* afterwards.  (SpecAbort)
C11_DisabledModeAborts ==
    /\ [] C11_Diagnosed
    /\ [][C11_OnlyAbort]_vars
    /\ (pc = "aborting" ~> pc = "aborted")

\* C11 witness: the process was aborted with the message on stderr while a
\* wrapper made earlier existed.
C11_Witness ==
    /\ pc = "aborted"
    /\ last.op = "abort"
    /\ disable_exceptions
    /\ stderr = <<ViolationMessage>>
    /\ \E i \in Slots : Alive(i)

\* The step  auto w = check_not_null(ptr);  as the build with the given
\* setting of NOT_NULL_DISABLE_EXCEPTIONS takes it.
CheckNotNullBuiltWith(disabled) ==
    \E dst \in Slots, ptr \in Values, cat \in Categories :
        /\ pc = "running"
        /\ ~Alive(dst)
        /\ cat = LVALUE => IsCopyable(ptr.type)
        /\ Produce("check_not_null", dst, ptr, cat,
                   check_not_null(ptr, cat, disabled), TRUE)

\* A step that is not check_not_null of a null value.
NoViolationStep == ~(last'.op = "check_not_null" /\ IsNull(last'.arg))

\* C12, the state part: check_not_null of a non-null value returns the same
\* in both builds; every check_not_null step of this build that is no
\* violation is a step of the other build and the other way round; and a
\* running program holds nothing that depends on the build but the switch.
C12_SameResults ==
    /\ \A ptr \in Values, cat \in Categories :
          ~IsNull(ptr)
              => check_not_null(ptr, cat, TRUE) = check_not_null(ptr, cat, FALSE)
    /\ ~ENABLED (/\ CheckNotNullBuiltWith(disable_exceptions)
                 /\ NoViolationStep
                 /\ ~CheckNotNullBuiltWith(~disable_exceptions))
    /\ ~ENABLED (/\ CheckNotNullBuiltWith(~disable_exceptions)
                 /\ NoViolationStep
                 /\ ~CheckNotNullBuiltWith(disable_exceptions))
    /\ pc = "running" => stderr = <<>> /\ exception = NoException

\* C12, the step part: a step other than a violation and its handling
\* touches nothing that the switch governs.
C12_SwitchUntouched ==
    pc = "running" /\ NoViolationStep
        => /\ stderr' = stderr
           /\ exception' = exception
           /\ pc' \in {"running", "undefined"}
           /\ disable_exceptions' = disable_exceptions

\* C12: NOT_NULL_DISABLE_EXCEPTIONS changes only how a violation is
\* signalled: every operation other than check_not_null of a null value gives
\* the same result and the same wrapper states in both builds.
C12_ModeChangesSignalOnly == [] C12_SameResults /\ [][C12_SwitchUntouched]_vars

\* C12 witness: with exceptions disabled check_not_null wrapped a non-null
\* unique_ptr, in a state where check_not_null of a null value would take the
\* two builds apart.
C12_Witness ==
    /\ disable_exceptions
    /\ last.op = "check_not_null"
    /\ last.arg.type = UNIQUE
    /\ last.arg.addr # nullptr
    /\ last.dst \in Slots
    /\ last.out = last.arg
    /\ ENABLED (/\ CheckNotNullBuiltWith(disable_exceptions)
                /\ ~CheckNotNullBuiltWith(~disable_exceptions))

\* C13, the state part: check_not_null of a null value has signalled, left
\* its argument as it was and made no wrapper; check_not_null of a non-null
\* value has signalled nothing and made a wrapper that holds the value.
C13_AllOrNothing ==
    last.op = "check_not_null"
        => /\ IsNull(last.arg)
                 => /\ last.signal \in {"throw", "abort"}
                    /\ last.after = last.arg
                    /\ last.dst = 0
                    /\ last.out = Nothing
           /\ ~IsNull(last.arg)
                 => /\ last.signal = "none"
                    /\ last.dst \in Slots
                    /\ m_pointer[last.dst] = last.arg
                    /\ last.out = last.arg
           /\ (last.signal = "none") = (last.dst \in Slots)

\* C13, the step part: a check_not_null that signals changes no wrapper and
\* makes none; one that succeeds makes exactly the wrapper it returns.
C13_NothingHalfMade ==
    last'.op = "check_not_null"
        => /\ \A i \in Slots : i # last'.dst => m_pointer'[i] = m_pointer[i]
           /\ last'.dst \in Slots => ~Alive(last'.dst)
           /\ IsNull(last'.arg) => m_pointer' = m_pointer

\* C13: check_not_null tests before it forwards: on a null argument the
\* failure is signalled with the argument unchanged and no wrapper made, on a
\* non-null one the wrapper is complete; nothing lies in between.
C13_NoPartialFailure == [] C13_AllOrNothing /\ [][C13_NothingHalfMade]_vars

\* C13 witness: check_not_null of an empty unique_ptr rvalue has thrown; the
\* argument is as it was and there is no wrapper for the call.
C13_Witness ==
    /\ last.op = "check_not_null"
    /\ last.arg = [type |-> UNIQUE, addr |-> nullptr]
    /\ last.after = last.arg
    /\ last.signal = "throw"
    /\ last.dst = 0
    /\ \A i \in Slots : ~Alive(i)

\* C14, the state part: assume_not_null signals nothing and returns a
\* wrapper of its argument, a null one too; the only exception there ever is
\* is the contract violation.
C14_AssumeNeverFails ==
    /\ \A ptr \in Values, cat \in Categories :
          /\ assume_not_null(ptr, cat).signal = "none"
          /\ assume_not_null(ptr, cat).obj # NoObject
    /\ last.op = "assume_not_null"
          => /\ last.signal = "none"
             /\ pc = "running"
             /\ last.dst \in Slots
             /\ m_pointer[last.dst] = last.arg
    /\ exception \in {NoException, not_null_contract_violation}

\* C14, the step part: a step that throws, prints to stderr or starts an
\* abort is check_not_null of a null value.
C14_OnlyCheckSignals ==
    \/ pc = "running" /\ pc' \in {"unwinding", "aborting", "aborted",
                                  "terminated"}
    \/ exception' # exception /\ exception' # NoException
    \/ stderr' # stderr
    => last'.op = "check_not_null" /\ IsNull(last'.arg)

\* C14: the contract violation is signalled only by check_not_null and only
\* on a null argument; assume_not_null never signals, and no constructor,
\* assignment, observer or comparison does.
C14_SingleErrorSource == [] C14_AssumeNeverFails /\ [][C14_OnlyCheckSignals]_vars

\* C14 witness: assume_not_null of a null raw pointer has returned a wrapper
\* that holds it.
C14_Witness ==
    /\ last.op = "assume_not_null"
    /\ last.arg = [type |-> RAW, addr |-> nullptr]
    /\ last.signal = "none"
    /\ last.dst \in Slots
    /\ IsNull(m_pointer[last.dst])
    /\ pc = "running"

\* C15: static_cast<bool>(w) is true for every wrapper in every state, one
\* that was moved from and holds an empty handle included; the held value
\* plays no part.
C15_BoolConversionConstant ==
    /\ last.op = "operator bool"
          => /\ last.ret = TRUE
             /\ last.signal = "none"
             /\ pc = "running"
    /\ \A i \in Slots : Alive(i) => operator_bool(W(i))
    /\ \A p \in Values : operator_bool(Wrapper(p)) = operator_bool(Wrapper(MovedFrom(p)))

\* C15 witness: the conversion gave true for a wrapper left holding an empty
\* unique_ptr.
C15_Witness ==
    /\ last.op = "operator bool"
    /\ last.arg = [type |-> UNIQUE, addr |-> nullptr]
    /\ m_pointer[last.src] = last.arg
    /\ last.ret = TRUE

\* The observer call the last step made has returned.
Returned(name) == last.op = name /\ last.signal = "none"

\* C16: get() returns the raw address reached from the held value through
\* operator->(), however many handles lie in between; operator->() returns
\* what get() returns and operator*() refers to the object at that address.
\* A call returns unless its behaviour is undefined: a handle in the chain is
\* empty, or a null pointer is dereferenced.  (SpecObserve)
C16_AddressObserversAgree ==
    /\ Returned("get")
          => last.out = [type |-> RAW, addr |-> last.arg.addr]
    /\ Returned("operator->") => last.out = get(W(last.src))
    /\ Returned("operator*") => last.out.addr = get(W(last.src)).addr
    /\ \A i \in Slots :
          /\ get(W(i)) = [type |-> RAW, addr |-> m_pointer[i].addr]
          /\ operator_arrow(W(i)) = get(W(i))
          /\ operator_star(W(i)).object_at = get(W(i)).addr
    /\ last.signal = "undefined"
          => \/ ~HasValidChain(last.arg)
             \/ last.op = "operator*" /\ IsNull(last.arg)

\* C16 witness: get() of a wrapper of a handle of a handle of a unique_ptr
\* has returned the address the unique_ptr owns.
C16_Witness ==
    /\ Returned("get")
    /\ last.arg.type = HANDLE3
    /\ last.arg.addr # nullptr
    /\ last.out = [type |-> RAW, addr |-> last.arg.addr]

\* C17 as stated: get() of a wrapper that descends from check_not_null or
\* from assume_not_null of a non-null value returns, and returns a non-null
\* address.  (SpecHistory)
C17_GetAlwaysSucceeds ==
    /\ \A i \in Slots :
          Alive(i) /\ history.lineage[i]
              => HasValidChain(m_pointer[i]) /\ get(W(i)).addr # nullptr
    /\ last.op = "get" /\ history.lineage[last.src]
          => last.signal = "none" /\ last.out.addr # nullptr

\* C17, amended: get() of a wrapper whose value comes from check_not_null or
\* from assume_not_null of a non-null value, directly or through wrappers
\* that had not been moved from, and which was not itself moved from,
\* returns, and returns a non-null address.  (SpecHistory)
C17_GetSucceedsWhileIntact ==
    /\ \A i \in Slots :
          Alive(i) /\ history.intact[i]
              => HasValidChain(m_pointer[i]) /\ get(W(i)).addr # nullptr
    /\ last.op = "get" /\ history.intact[last.src]
          => last.signal = "none" /\ last.out.addr # nullptr

\* C17 witness: get() has returned the address of a shared handle that
\* reached its wrapper through an assignment.
C17_Witness ==
    /\ Returned("get")
    /\ history.intact[last.src]
    /\ last.arg.type = SHARED_VOID
    /\ last.out = [type |-> RAW, addr |-> last.arg.addr]
    /\ last.out.addr # nullptr
    /\ \E j \in Slots : j # last.src /\ Alive(j) /\ ~history.intact[j]
                        /\ history.lineage[j] /\ IsNull(m_pointer[j])

\* The const operations: the observers and the comparisons.
ConstOps ==
    {"get", "operator->", "operator*", "operator bool", "as_nullable",
     "compare_null", "compare_nn", "compare_nv", "compare_vn"}

\* C18, the step part: an observer or a comparison leaves the held value of
\* every wrapper as it was, and as_nullable() called again on the same
\* wrapper returns what it returned before.
C18_NothingWritten ==
    last'.op \in ConstOps
        => /\ m_pointer' = m_pointer
           /\ stderr' = stderr
           /\ exception' = exception
           /\ last.op = "as_nullable" /\ last'.op = "as_nullable"
              /\ last'.src = last.src /\ last'.signal = "none"
                 => last'.out = last.out

\* C18, the state part: as_nullable() returns the held value, and the
\* operand of an observer is what the wrapper still holds.
C18_HeldValueReturned ==
    /\ Returned("as_nullable") => last.out = m_pointer[last.src]
    /\ last.op \in {"get", "operator->", "operator*", "operator bool",
                    "as_nullable"}
          => last.arg = m_pointer[last.src]

\* C18: get(), operator->(), operator*(), operator bool(), as_nullable() on
\* an lvalue and every comparison leave every wrapper's held value
\* unchanged; repeated as_nullable() calls return the same value.
\* (SpecObserve)
C18_ObserversPure == [] C18_HeldValueReturned /\ [][C18_NothingWritten]_vars

\* C18 witness: as_nullable() has returned the unique_ptr a wrapper holds,
\* and the wrapper holds it still.
C18_Witness ==
    /\ Returned("as_nullable")
    /\ last.arg.type = UNIQUE
    /\ last.arg.addr # nullptr
    /\ last.out = last.arg
    /\ m_pointer[last.src] = last.arg

\* The operations that assign to a wrapper, and those that move from one.
AssignOps ==
    {"copy_assign", "move_assign", "converting_copy_assign",
     "converting_move_assign"}

MoveOps ==
    {"move_ctor", "move_assign", "converting_move_ctor",
     "converting_move_assign", "as_nullable_rvalue"}

\* C19, the state part: ++, --, +=, -= and [] on a wrapper compile for
\* nobody, and a member function that ran is one that compiles.
C19_ArithmeticDeleted ==
    /\ \A m \in ArithmeticMembers, c \in Callers : ~IsUsable(m, c)
    /\ last.op \in PublicMembers => IsUsable(last.op, "user")
    /\ last.op \notin ArithmeticMembers

\* C19, the step part: the address a wrapper holds changes only when the
\* wrapper is assigned the value of another or is moved from; it is never
\* moved by an offset.
C19_NoOffsetStep ==
    \A i \in Slots :
        Alive(i) /\ m_pointer'[i] # Nothing
        /\ m_pointer'[i].addr # m_pointer[i].addr
            => \/ /\ last'.dst = i
                  /\ last'.op \in AssignOps
                  /\ m_pointer'[i].addr = last'.arg.addr
                  /\ last'.arg = m_pointer[last'.src]
               \/ /\ last'.src = i
                  /\ last'.op \in MoveOps
                  /\ m_pointer'[i] = MovedFrom(m_pointer[i])

\* C19: increment, decrement, += , -= and indexing on a wrapper are rejected
\* at compile time, so no sequence of operations moves a held address by an
\* offset.
C19_NoPointerArithmetic == [] C19_ArithmeticDeleted /\ [][C19_NoOffsetStep]_vars

\* C19 witness: the address a raw-pointer wrapper holds was changed, by an
\* assignment from another wrapper; w[1] or ++w would not compile.
C19_Witness ==
    /\ last.op = "copy_assign"
    /\ last.src # last.dst
    /\ last.arg.type = RAW
    /\ last.arg.addr # nullptr
    /\ m_pointer[last.dst] = last.arg
    /\ ~IsUsable("operator[]", "user")
    /\ ~IsUsable("operator++()", "user")

\* The operations that bring a wrapper into existence.
FactoryOps == {"assume_not_null", "check_not_null"}

ConstructOps ==
    {"copy_ctor", "move_ctor", "converting_copy_ctor", "converting_move_ctor"}

\* C20, the state part: there is no default constructor, the constructor
\* that takes a value is open to detail::not_null_factory alone.
C20_NoPublicValueCtor ==
    /\ \A c \in Callers : ~IsUsable(DefaultCtor, c)
    /\ \A c \in Callers : IsUsable(ValueCtor, c) = (c \in Friends)
    /\ \A m \in ConstructOps : IsUsable(m, "user")
    /\ {DefaultCtor, ValueCtor} \cap PublicMembers = {}
    /\ last.op \in FactoryOps \cup ConstructOps
          => last.op \in FactoryOps \/ IsUsable(last.op, "user")

\* C20, the step part: a wrapper that comes into existence was returned by a
\* factory and holds the value passed to it, or was constructed from a
\* wrapper and holds its value; and a wrapper's value changes afterwards only
\* to the value of another wrapper or to the state of a moved-from value.
C20_MadeByFactoryOrWrapper ==
    \A i \in Slots :
        /\ ~Alive(i) /\ m_pointer'[i] # Nothing
              => /\ last'.dst = i
                 /\ last'.op \in FactoryOps \cup ConstructOps
                 /\ m_pointer'[i].addr = last'.arg.addr
                 /\ last'.op \in FactoryOps => last'.signal = "none"
                 /\ last'.op \in ConstructOps
                       => Alive(last'.src) /\ last'.arg = m_pointer[last'.src]
        /\ Alive(i) /\ m_pointer'[i] # Nothing /\ m_pointer'[i] # m_pointer[i]
              => \/ /\ last'.dst = i
                    /\ last'.op \in AssignOps
                    /\ Alive(last'.src)
                    /\ m_pointer'[i].addr = m_pointer[last'.src].addr
                 \/ /\ last'.src = i
                    /\ last'.op \in MoveOps
                    /\ m_pointer'[i] = MovedFrom(m_pointer[i])

\* C20: a wrapper comes into existence only through assume_not_null,
\* check_not_null or construction from another wrapper; there is no default
\* constructor and no public constructor from a value, so every held value
\* goes back to a value passed to a factory.
C20_ConstructionDiscipline ==
    [] C20_NoPublicValueCtor /\ [][C20_MadeByFactoryOrWrapper]_vars

\* C20 witness: a wrapper of a shared_ptr<void> was constructed from a
\* wrapper of a unique_ptr<int>, whose value had come from a factory.
C20_Witness ==
    /\ last.op = "converting_move_ctor"
    /\ last.arg.type = UNIQUE
    /\ last.arg.addr # nullptr
    /\ m_pointer[last.dst] = [type |-> SHARED_VOID, addr |-> last.arg.addr]
    /\ ~IsUsable(ValueCtor, "user")
    /\ IsUsable(ValueCtor, "detail::not_null_factory")

AssignedTo(i) ==
    /\ last'.dst = i
    /\ last'.src # i
    /\ last'.op \in AssignOps
    /\ last'.arg = m_pointer[last'.src]
    /\ m_pointer'[i] = Construct(m_pointer[i].type, last'.arg)

MovedOutOf(i) ==
    /\ last'.src = i
    /\ last'.op \in MoveOps
    /\ m_pointer[i].type # RAW
    /\ m_pointer'[i] = MovedFrom(m_pointer[i])

C22_OnlyTheWrapperMade ==
    last'.op = "assume_not_null"
        => /\ last'.dst \in Slots
           /\ ~Alive(last'.dst)
           /\ \A i \in Slots : i # last'.dst => m_pointer'[i] = m_pointer[i]
           /\ stderr' = stderr
           /\ exception' = exception
           /\ pc' = pc

\* C22, the argument as stated: it holds the same value after the call as
\* before it.
C22_ArgumentKept == last.op = "assume_not_null" => last.after = last.arg

\* C22 as stated: assume_not_null changes nothing except producing the
\* wrapper, and its argument holds afterwards what it held before.
C22_AssumeNoSideEffects == [] C22_ArgumentKept /\ [][C22_OnlyTheWrapperMade]_vars

\* C22, the argument, amended: an lvalue argument and a raw pointer hold the
\* same value after the call; an rvalue handle was moved into the wrapper
\* and is left empty.
C22_ArgumentForwarded ==
    /\ \A ptr \in Values, cat \in Categories :
          assume_not_null(ptr, cat).arg = AfterForward(ptr, cat)
    /\ last.op = "assume_not_null"
          => /\ last.after = AfterForward(last.arg, last.cmp)
             /\ last.cmp = LVALUE \/ last.arg.type = RAW
                   => last.after = last.arg
             /\ last.cmp = RVALUE /\ last.arg.type # RAW
                   => last.after = [last.arg EXCEPT !.addr = nullptr]

\* C22, amended: assume_not_null changes nothing except producing the
\* wrapper and, for an rvalue handle, moving the argument into it.
C22_AssumeOnlyForwards ==
    [] C22_ArgumentForwarded /\ [][C22_OnlyTheWrapperMade]_vars

\* C22 witness: assume_not_null(std::move(p)) of a non-null shared_ptr p
\* left p empty, made a wrapper that holds the value, and left the wrapper
\* that existed as it was.
C22_Witness ==
    /\ last.op = "assume_not_null"
    /\ last.cmp = RVALUE
    /\ last.arg.type = SHARED
    /\ last.arg.addr # nullptr
    /\ last.after = [type |-> SHARED, addr |-> nullptr]
    /\ m_pointer[last.dst] = last.arg
    /\ \E j \in Slots : j # last.dst /\ Alive(j)

\* C23: a copy-constructed wrapper holds a value equal to the source's and
\* the source is unchanged; a move-constructed wrapper holds the value the
\* source held before the move, and the source is left as the payload's own
\* move leaves it.
C23_SameTypeConstruction ==
    /\ \A p \in Values :
          /\ copy_ctor(Wrapper(p)) = [obj |-> Wrapper(p), other |-> Wrapper(p)]
          /\ move_ctor(Wrapper(p)).obj = Wrapper(p)
    /\ last.op = "copy_ctor"
          => /\ m_pointer[last.dst] = last.arg
             /\ m_pointer[last.src] = last.arg
             /\ IsCopyable(last.arg.type)
    /\ last.op = "move_ctor"
          => /\ m_pointer[last.dst] = last.arg
             /\ m_pointer[last.src] = MovedFrom(last.arg)

\* C23 witness: a wrapper of a unique_ptr was move-constructed from another;
\* it holds the address the source held, the source is empty.
C23_Witness ==
    /\ last.op = "move_ctor"
    /\ last.arg.type = UNIQUE
    /\ last.arg.addr # nullptr
    /\ m_pointer[last.dst] = last.arg
    /\ IsNull(m_pointer[last.src])

\* C24: a not_null<T> built from a not_null<U>&& refers to the address the
\* source held before the move, and the source's value is moved from: a
\* handle is left empty, a raw pointer as it was.
C24_ConvertingMoveTransfers ==
    /\ \A T \in Types, p \in Values :
          /\ converting_move_ctor(T, Wrapper(p)).obj.m_pointer
                = [type |-> T, addr |-> p.addr]
          /\ converting_move_ctor(T, Wrapper(p)).other = Wrapper(MovedFrom(p))
    /\ last.op = "converting_move_ctor"
          => /\ m_pointer[last.dst].addr = last.arg.addr
             /\ m_pointer[last.dst].type # last.arg.type
             /\ IsConstructible(m_pointer[last.dst].type, last.arg.type, RVALUE)
             /\ m_pointer[last.src] = MovedFrom(last.arg)
             /\ last.arg.type # RAW => IsNull(m_pointer[last.src])

\* C24 witness: a not_null<shared_ptr<int>> was built implicitly from a
\* not_null<unique_ptr<int>>&&; it owns the address, the source is empty.
C24_Witness ==
    /\ last.op = "converting_move_ctor"
    /\ last.arg.type = UNIQUE
    /\ last.arg.addr # nullptr
    /\ m_pointer[last.dst] = [type |-> SHARED, addr |-> last.arg.addr]
    /\ not_null_is_implicit_convertible(SHARED, UNIQUE, RVALUE)
    /\ m_pointer[last.src] = [type |-> UNIQUE, addr |-> nullptr]

\* C25: the converting constructor of not_null<T> from not_null<U> exists
\* exactly when T is constructible from U (const U& for the copy form, U&&
\* for the move form); it is implicit exactly when U also converts to T and
\* explicit otherwise, and exactly one of the two overloads is enabled when T
\* is constructible from U.
C25_ConversionGating ==
    /\ \A T, U \in Types, cat \in Categories :
          LET implicit == not_null_is_implicit_convertible(T, U, cat)
              explicit == not_null_is_explicit_convertible(T, U, cat)
          IN  /\ (implicit \/ explicit) = IsConstructible(T, U, cat)
              /\ ~(implicit /\ explicit)
              /\ implicit = (IsConstructible(T, U, cat) /\ IsConvertible(U, T, cat))
              /\ explicit = (IsConstructible(T, U, cat) /\ ~IsConvertible(U, T, cat))
    /\ \A dst, src \in Slots, T \in Types :
          pc = "running" /\ Alive(src) /\ ~Alive(dst) /\ T # m_pointer[src].type
              => /\ (ENABLED ConvertCopyConstruct(dst, src, T))
                       <=> IsConstructible(T, m_pointer[src].type, LVALUE)
                 /\ (ENABLED ConvertMoveConstruct(dst, src, T))
                       <=> IsConstructible(T, m_pointer[src].type, RVALUE)
    /\ last.op = "converting_copy_ctor"
          => IsConstructible(m_pointer[last.dst].type, last.arg.type, LVALUE)
    /\ last.op = "converting_move_ctor"
          => IsConstructible(m_pointer[last.dst].type, last.arg.type, RVALUE)

\* C25 witness: a not_null<shared_ptr<int>> was built from a not_null<int*>
\* lvalue, through the explicit overload: the implicit one is disabled.
C25_Witness ==
    /\ last.op = "converting_copy_ctor"
    /\ last.arg.type = RAW
    /\ last.arg.addr # nullptr
    /\ m_pointer[last.dst].type = SHARED
    /\ not_null_is_explicit_convertible(SHARED, RAW, LVALUE)
    /\ ~not_null_is_implicit_convertible(SHARED, RAW, LVALUE)
    /\ ~not_null_is_explicit_convertible(SHARED, UNIQUE, LVALUE)
    /\ ~not_null_is_implicit_convertible(SHARED, UNIQUE, LVALUE)

\* The converting constructor of not_null<T> from not_null<U> is available,
\* through its implicit or its explicit overload.
ConvertingCtorAvailable(T, U, cat) ==
    \/ not_null_is_implicit_convertible(T, U, cat)
    \/ not_null_is_explicit_convertible(T, U, cat)

\* C26 as stated: a not_null<U> can be assigned to a not_null<T>, in the
\* copy or the move form, exactly when the converting constructor of
\* not_null<T> from not_null<U> of that form is available.
C26_AssignableIffConstructible ==
    \A dst, src \in Slots :
        pc = "running" /\ Alive(dst) /\ Alive(src)
        /\ m_pointer[dst].type # m_pointer[src].type
            => LET T == m_pointer[dst].type
                   U == m_pointer[src].type
               IN  /\ (ENABLED ConvertCopyAssign(dst, src))
                          <=> ConvertingCtorAvailable(T, U, LVALUE)
                   /\ (ENABLED ConvertMoveAssign(dst, src))
                          <=> ConvertingCtorAvailable(T, U, RVALUE)

\* C26, amended: a not_null<U> can be assigned to a not_null<T> exactly when
\* a T can be assigned a U (const U& for the copy form, U&& for the move
\* form).  Where that holds the converting constructor is available too, and
\* it is the implicit one; a construction that is explicit, such as a handle
\* adopting a raw pointer, has no assignment beside it.
C26_AssignableIffPayloadAssignable ==
    /\ \A T, U \in Types, cat \in Categories :
          T # U => /\ IsAssignable(T, U, cat) => ConvertingCtorAvailable(T, U, cat)
                   /\ IsAssignable(T, U, cat)
                         = not_null_is_implicit_convertible(T, U, cat)
    /\ \A dst, src \in Slots :
          pc = "running" /\ Alive(dst) /\ Alive(src)
          /\ m_pointer[dst].type # m_pointer[src].type
              => LET T == m_pointer[dst].type
                     U == m_pointer[src].type
                 IN  /\ (ENABLED ConvertCopyAssign(dst, src))
                            <=> IsAssignable(T, U, LVALUE)
                     /\ (ENABLED ConvertMoveAssign(dst, src))
                            <=> IsAssignable(T, U, RVALUE)
                     /\ not_null_is_explicit_convertible(T, U, LVALUE)
                            => ~ENABLED ConvertCopyAssign(dst, src)
                     /\ not_null_is_explicit_convertible(T, U, RVALUE)
                            => ~ENABLED ConvertMoveAssign(dst, src)

\* C26 witness: a not_null<shared_ptr<int>> was built from a not_null<int*>
\* by the explicit constructor, and the not_null<int*> cannot be assigned to
\* it.
C26_Witness ==
    /\ last.op = "converting_copy_ctor"
    /\ m_pointer[last.src].type = RAW
    /\ m_pointer[last.dst].type = SHARED
    /\ ConvertingCtorAvailable(SHARED, RAW, LVALUE)
    /\ ~ENABLED ConvertCopyAssign(last.dst, last.src)
    /\ ~ENABLED ConvertMoveAssign(last.dst, last.src)

ConvertingAssignOps == {"converting_copy_assign", "converting_move_assign"}

\* C27, the state part: after  sut = input  sut refers to the address input
\* holds and input is unchanged; after  sut = std::move(input)  sut refers to
\* the address input held, and input was moved from.
C27_TakesSourceValue ==
    /\ last.op = "converting_copy_assign"
          => /\ as_nullable(W(last.dst)).addr = as_nullable(W(last.src)).addr
             /\ m_pointer[last.src] = last.arg
             /\ m_pointer[last.dst].type # last.arg.type
    /\ last.op = "converting_move_assign"
          => /\ m_pointer[last.dst].addr = last.arg.addr
             /\ m_pointer[last.src] = MovedFrom(last.arg)
             /\ m_pointer[last.dst].type # last.arg.type

\* C27, the step part: the target's new value is the source's and owes
\* nothing to the value the target held, which it holds no longer unless the
\* source held the same; no wrapper but the two changes.
C27_WholeValueReplaced ==
    last'.op \in ConvertingAssignOps
        => LET dst == last'.dst
               src == last'.src
           IN  /\ dst # src
               /\ Alive(dst) /\ Alive(src)
               /\ m_pointer'[dst] = Construct(m_pointer[dst].type, m_pointer[src])
               /\ m_pointer[dst].addr # m_pointer[src].addr
                     => m_pointer'[dst].addr # m_pointer[dst].addr
               /\ \A i \in Slots \ {dst, src} : m_pointer'[i] = m_pointer[i]

SameTypeAssignOps == {"copy_assign", "move_assign"}

\* C28, the state part: after  sut = other  between wrappers of one type sut
\* holds the value other held; the copy form leaves other as it was, the
\* move form leaves it moved from and sut.get() is the address it held.
C28_HoldsSourceValue ==
    /\ last.op = "copy_assign"
          => /\ m_pointer[last.dst] = last.arg
             /\ m_pointer[last.src] = last.arg
             /\ IsCopyable(last.arg.type)
    /\ last.op = "move_assign"
          => /\ m_pointer[last.dst] = last.arg
             /\ last.dst # last.src
                   => m_pointer[last.src] = MovedFrom(last.arg)
             /\ HasValidChain(last.arg)
                   => get(W(last.dst)) = [type |-> RAW, addr |-> last.arg.addr]

\* C28, the step part: a target that held a non-null value holds one after
\* the assignment when the source held one.
C28_InvariantCarriedOver ==
    last'.op \in SameTypeAssignOps
        => LET dst == last'.dst
               src == last'.src
           IN  /\ m_pointer[dst].type = m_pointer[src].type
               /\ m_pointer'[dst] = m_pointer[src]
               /\ ~IsNull(m_pointer[dst]) /\ ~IsNull(m_pointer[src])
                     => ~IsNull(m_pointer'[dst])
               /\ \A i \in Slots \ {dst, src} : m_pointer'[i] = m_pointer[i]

\* C28: same-type assignment is the payload's own: the target holds the value
\* the source held (copy: source unchanged; move: get() is the address the
\* source held), and a non-null target stays non-null when the source was.
C28_SameTypeAssignment ==
    [] C28_HoldsSourceValue /\ [][C28_InvariantCarriedOver]_vars

\* C28 witness: a not_null<shared_ptr<int>> was copy-assigned another one;
\* both hold the source's value and get() of the target is its address.
C28_Witness ==
    /\ last.op = "copy_assign"
    /\ last.dst # last.src
    /\ last.arg.type = SHARED
    /\ last.arg.addr # nullptr
    /\ m_pointer[last.dst] = last.arg
    /\ m_pointer[last.src] = last.arg
    /\ get(W(last.dst)) = [type |-> RAW, addr |-> last.arg.addr]

\* The last step moved the value out of wrapper last.src into another object.
MovedIntoAnother ==
    /\ last.op \in MoveOps
    /\ last.dst # last.src
    /\ last.op = "as_nullable_rvalue" => last.cmp = MOVE_OUT

\* C29, the state part: the source of a move of a move-only owning handle
\* holds a null value, and for a wrapper holding a null value w == nullptr
\* is false, w != nullptr is true and bool(w) is true all the same.
C29_NullYetNotNull ==
    /\ MovedIntoAnother /\ ~IsCopyable(last.arg.type)
          => /\ ~history.intact[last.src]
             /\ IsNull(m_pointer[last.src])
    /\ \A i \in Slots :
          Alive(i) /\ IsNull(m_pointer[i])
              => /\ ~operator_eq_null(W(i))
                 /\ ~operator_null_eq(W(i))
                 /\ operator_ne_null(W(i))
                 /\ operator_null_ne(W(i))
                 /\ operator_bool(W(i))
    /\ last.op = "compare_null" /\ IsNull(m_pointer[last.src])
          => last.ret = (last.cmp \in {"w!=nullptr", "nullptr!=w"})
    /\ last.op = "operator bool" /\ IsNull(last.arg) => last.ret = TRUE

\* C29, the step part: a wrapper left holding a null value holds it until it
\* is assigned to or destroyed.
C29_StaysNull ==
    \A i \in Slots :
        Alive(i) /\ IsNull(m_pointer[i]) /\ m_pointer'[i] # m_pointer[i]
            => \/ m_pointer'[i] = Nothing
               \/ last'.op \in AssignOps /\ last'.dst = i

\* C29: a wrapper of a move-only owning handle that has been the source of a
\* move (move construction, move assignment, a converting move, a consuming
\* as_nullable() whose result was moved out) holds a null value, and yet
\* w == nullptr is false, w != nullptr is true and bool(w) is true.
\* (SpecHistory)
C29_NullComparisonDisagrees ==
    [] C29_NullYetNotNull /\ [][C29_StaysNull]_vars

\* C29 witness: a wrapper made from a non-null unique_ptr was moved from and
\* holds an empty handle; w != nullptr was evaluated on it and gave true.
C29_Witness ==
    /\ last.op = "compare_null"
    /\ last.cmp = "w!=nullptr"
    /\ history.lineage[last.src]
    /\ ~history.intact[last.src]
    /\ m_pointer[last.src] = [type |-> UNIQUE, addr |-> nullptr]
    /\ last.ret = TRUE

\* C30, the state part: std::move(w).as_nullable() refers to the value w
\* holds; when the result is discarded w holds what it held and no object
\* was made from it.
C30_DiscardKeepsValue ==
    /\ \A p \in Values : as_nullable_rvalue(Wrapper(p)) = p
    /\ last.op = "as_nullable_rvalue" /\ last.cmp = DISCARD
          => /\ m_pointer[last.src] = last.arg
             /\ last.after = last.arg
             /\ last.out = Nothing

\* C30, the step part: a step that calls the rvalue as_nullable() changes the
\* value w holds only when the caller moves from the reference returned, and
\* then as the payload's move does; it changes no other wrapper.
C30_ChangesOnlyWhenMovedFrom ==
    last'.op = "as_nullable_rvalue"
        => LET src == last'.src
           IN  /\ Alive(src)
               /\ last'.cmp \in Uses
               /\ m_pointer'[src] # m_pointer[src]
                     => /\ last'.cmp = MOVE_OUT
                        /\ m_pointer'[src] = MovedFrom(m_pointer[src])
               /\ last'.cmp = MOVE_OUT
                     => /\ last'.out = m_pointer[src]
                        /\ m_pointer'[src] = MovedFrom(m_pointer[src])
               /\ \A i \in Slots \ {src} : m_pointer'[i] = m_pointer[i]

\* C30: the rvalue as_nullable() only exposes the held value: calling it and
\* discarding the result leaves the wrapper's value unchanged; the value
\* changes only when the caller moves from the reference returned.
C30_RvalueAsNullableOnlyExposes ==
    [] C30_DiscardKeepsValue /\ [][C30_ChangesOnlyWhenMovedFrom]_vars

\* C30 witness: std::move(w).as_nullable() was called on a wrapper of a
\* non-null unique_ptr and the result discarded; the wrapper still owns the
\* object.
C30_Witness ==
    /\ last.op = "as_nullable_rvalue"
    /\ last.cmp = DISCARD
    /\ last.arg.type = UNIQUE
    /\ last.arg.addr # nullptr
    /\ m_pointer[last.src] = last.arg

=============================================================================
